---- MODULE Spec2Model ----
(***************************************************************************)
(* Model of the thoth voice-to-text bot (bob_bot.py, utils/utils.py).      *)
(*                                                                         *)
(*   - split_string (both copies), detect_silence and the progress         *)
(*     percentage of stt are pure functions: operators, applied by the     *)
(*     actions of SpecSplit, SpecSilence and SpecPct to inputs drawn in    *)
(*     the initial state.                                                  *)
(*   - stt is a coroutine: Spec runs several stt handlers on one event     *)
(*     loop, one action per stretch of code between two awaits.            *)
(*                                                                         *)
(* A Python str is a sequence of one-character strings.                    *)
(***************************************************************************)
EXTENDS Integers, Sequences, FiniteSets, TLC

(***************************************************************************)
(* Bounds.                                                                 *)
(***************************************************************************)
\* The message length limit, 4096 in the source (bob_bot.py:55,62 and
\* utils.py:15; utils.py:21 writes the limit minus one, 4095), scaled so that
\* every string around the limit can be enumerated.
MaxMessageLength == 6
\* Longest enumerated input string of split_string.
MaxStrLen == 8
\* Longest audio buffer (samples), largest sample rate and largest threshold
\* given to detect_silence.
MaxSamples == 5
MaxSr == 3
MaxThreshold == 2
\* Largest chunk count for which the progress percentage is tabulated.
MaxPctChunks == 60
\* Largest number of chunks get_chunks returns in one stt request.
MaxChunks == 3

(***************************************************************************)
(* State.                                                                  *)
(***************************************************************************)
VARIABLES
    \* harness of the pure functions
    arg,                \* the arguments of the call
    ret,                \* what the call returned
    called,             \* which function has been applied ("none" before)
    \* stt, per request
    pc,                 \* position of the handler
    running,            \* the handler the event loop is executing, or NoTask
    num_chunks,         \* num_chunks of get_chunks
    i,                  \* chunks transcribed so far (loop index i + 1)
    transcription,      \* chunk index -> text the model returned for it
    decoded_message,    \* decoded_message
    current_percentage, \* current_percentage
    emitted,            \* percentages passed to reply_text / edit_message_text
    shown,              \* percentages of the calls that returned
    message,            \* TRUE once the progress message exists
    msgs_list,          \* msgs_list
    delivered,          \* transcript pieces the user received
    errors,             \* error messages the user received
    raisedAt            \* the call that raised in this request ("none" if none)

harnessVars == <<arg, ret, called>>
sttVars == <<pc, running, num_chunks, i, transcription, decoded_message,
             current_percentage, emitted, shown, message, msgs_list, delivered,
             errors, raisedAt>>
vars == <<arg, ret, called, pc, running, num_chunks, i, transcription,
          decoded_message, current_percentage, emitted, shown, message,
          msgs_list, delivered, errors, raisedAt>>

(***************************************************************************)
(* Strings.                                                                *)
(***************************************************************************)
Alphabet == {"a", "b", " "}
Whitespace == {" "}

\* All strings of length at most n.
StringsUpTo(n) == UNION {[1..k -> Alphabet] : k \in 0..n}

\* str.split(): the maximal runs of non-whitespace characters, in order.
RECURSIVE str_split_from(_, _, _, _)
str_split_from(string, k, word, words) ==
    IF k > Len(string)
    THEN IF word = <<>> THEN words ELSE Append(words, word)
    ELSE IF string[k] \in Whitespace
         THEN str_split_from(string, k + 1, <<>>,
                             IF word = <<>> THEN words ELSE Append(words, word))
         ELSE str_split_from(string, k + 1, Append(word, string[k]), words)

str_split(string) == str_split_from(string, 1, <<>>, <<>>)

\* sep.join(strings)
RECURSIVE str_join(_, _)
str_join(sep, strings) ==
    IF strings = <<>> THEN <<>>
    ELSE IF Len(strings) = 1 THEN strings[1]
    ELSE strings[1] \o sep \o str_join(sep, Tail(strings))

(***************************************************************************)
(* split_string, bob_bot.py:49-68 (returns a list).                        *)
(***************************************************************************)
RECURSIVE split_string_loop(_, _, _, _)
split_string_loop(words, k, current_string, result) ==
    IF k > Len(words)
    THEN Append(result, current_string)
    ELSE LET word == words[k] IN
         IF Len(current_string) + Len(word) + 1 > MaxMessageLength
         THEN split_string_loop(words, k + 1, word, Append(result, current_string))
         ELSE split_string_loop(words, k + 1, current_string \o <<" ">> \o word, result)

split_string(string) ==
    IF Len(string) < MaxMessageLength
    THEN <<string>>
    ELSE split_string_loop(str_split(string), 1, <<>>, <<>>)

(***************************************************************************)
(* split_string, utils/utils.py:9-26 (a generator; the sequence is what it *)
(* yields, in order).                                                      *)
(***************************************************************************)
RECURSIVE utils_split_string_loop(_, _, _, _)
utils_split_string_loop(words, k, current_string, yielded) ==
    IF k > Len(words)
    THEN Append(yielded, current_string)
    ELSE LET word == words[k] IN
         IF Len(current_string) + Len(word) > MaxMessageLength - 1
         THEN utils_split_string_loop(words, k + 1, word, Append(yielded, current_string))
         ELSE utils_split_string_loop(words, k + 1, current_string \o <<" ">> \o word, yielded)

utils_split_string(string) ==
    IF Len(string) < MaxMessageLength
    THEN <<string>>
    ELSE utils_split_string_loop(str_split(string), 1, <<>>, <<>>)

(***************************************************************************)
(* detect_silence, utils/utils.py:48-78.  Samples are integers (amplitude  *)
(* units).  The duration, len(audio) / sr seconds, is kept as the fraction *)
(* <<len(audio), sr>>.                                                     *)
(***************************************************************************)
Abs(x) == IF x < 0 THEN -x ELSE x

RECURSIVE Sum(_)
Sum(ns) == IF ns = <<>> THEN 0 ELSE Head(ns) + Sum(Tail(ns))

\* range(0, n, step) as a sequence
range(n, step) == [k \in 1..((n + step - 1) \div step) |-> (k - 1) * step]

\* audio[s : s + n] (0-based, clipped at the end of the buffer)
slice(audio, s, n) ==
    IF s >= Len(audio) THEN <<>>
    ELSE SubSeq(audio, s + 1, IF s + n > Len(audio) THEN Len(audio) ELSE s + n)

\* np.abs(window).sum()
abs_sum(window) == Sum([k \in 1..Len(window) |-> Abs(window[k])])

\* seconds[::-1]
reversed(xs) == [k \in 1..Len(xs) |-> xs[Len(xs) + 1 - k]]

\* the counting loop of lines 69-74: the leading run of values below threshold
RECURSIVE count_below(_, _)
count_below(seconds, threshold) ==
    IF seconds = <<>> THEN 0
    ELSE IF Head(seconds) < threshold
         THEN 1 + count_below(Tail(seconds), threshold)
         ELSE 0

\* windows with the last, shorter window left out
windows_full_only(audio, sr) ==
    [k \in 1..(Len(audio) \div sr) |-> abs_sum(slice(audio, (k - 1) * sr, sr))]

\* the windowing loop of lines 64-65
windows(audio, sr) ==
    LET starts == range(Len(audio), sr)
    IN  [k \in 1..Len(starts) |-> abs_sum(slice(audio, starts[k], sr))]

detect_silence(audio, sr, threshold) ==
    LET duration == <<Len(audio), sr>>
        seconds == reversed(windows(audio, sr))
    IN  <<count_below(seconds, threshold), duration>>

(***************************************************************************)
(* The progress percentage, bob_bot.py:132:                                *)
(*     int((i + 1) / num_chunks * 100)                                     *)
(* in IEEE 754 double precision, round to nearest even.  A positive double *)
(* is [m |-> its 53 significand bits, first bit 1, e |-> the exponent of   *)
(* the first bit].                                                         *)
(***************************************************************************)
SignificandBits == 53

\* Bit sequences are most significant bit first; they are produced and
\* multiplied eight bits at a time.
RECURSIVE int_to_bits(_)
int_to_bits(v) == IF v = 0 THEN <<>> ELSE Append(int_to_bits(v \div 2), v % 2)

RECURSIVE bits_to_int(_)
bits_to_int(bits) ==
    IF bits = <<>> THEN 0
    ELSE 2 * bits_to_int(SubSeq(bits, 1, Len(bits) - 1)) + bits[Len(bits)]

\* the eight bits of 0 <= d < 256
byte_to_bits(d) == [t \in 1..8 |-> (d \div (2 ^ (8 - t))) % 2]

\* the bits of a sequence of bytes
bytes_to_bits(bytes) ==
    [t \in 1..(8 * Len(bytes)) |-> byte_to_bits(bytes[((t - 1) \div 8) + 1])[((t - 1) % 8) + 1]]

\* bits without its leading zeros (bits holds a 1)
strip_zeros(bits) ==
    LET ones == {t \in 1..Len(bits) : bits[t] = 1}
        first == CHOOSE t \in ones : \A u \in ones : t <= u
    IN  SubSeq(bits, first, Len(bits))

\* bits + 1 on SignificandBits bits; a carry out of the first bit renormalises
increment(x) ==
    LET zeros == {t \in 1..Len(x.m) : x.m[t] = 0} IN
    IF zeros = {}
    THEN [m |-> [t \in 1..Len(x.m) |-> IF t = 1 THEN 1 ELSE 0], e |-> x.e + 1]
    ELSE LET p == CHOOSE t \in zeros : \A u \in zeros : u <= t
         IN  [m |-> [t \in 1..Len(x.m) |->
                       IF t < p THEN x.m[t] ELSE IF t = p THEN 1 ELSE 0],
              e |-> x.e]

\* Round to nearest, ties to even: bits holds at least SignificandBits + 1
\* bits of the exact value, sticky says whether anything nonzero follows them.
round_nearest_even(bits, e, sticky) ==
    LET kept == [m |-> SubSeq(bits, 1, SignificandBits), e |-> e]
        guard == bits[SignificandBits + 1]
        rest == sticky \/ \E t \in (SignificandBits + 2)..Len(bits) : bits[t] = 1
    IN  IF guard = 1 /\ (rest \/ bits[SignificandBits] = 1)
        THEN increment(kept)
        ELSE kept

\* count more bytes of the binary expansion of r / y (r < y), then the remainder
RECURSIVE long_division(_, _, _)
long_division(r, y, count) ==
    IF count = 0 THEN <<<<>>, r>>
    ELSE LET rest == long_division((256 * r) % y, y, count - 1)
         IN  <<<<(256 * r) \div y>> \o rest[1], rest[2]>>

\* the scaling of a / b into [1, 2): <<x, y, e>> with a / b = (x / y) * 2^e
RECURSIVE normalise(_, _, _)
normalise(x, y, e) ==
    IF x < y THEN normalise(2 * x, y, e - 1)
    ELSE IF x >= 2 * y THEN normalise(x, 2 * y, e + 1)
    ELSE <<x, y, e>>

\* a / b for integers a, b > 0 (Python's true division, correctly rounded)
float_div(a, b) ==
    LET scaled == normalise(a, b, 0)
        q == long_division(scaled[1] - scaled[2], scaled[2], 7)
    IN  round_nearest_even(<<1>> \o bytes_to_bits(q[1]), scaled[3], q[2] # 0)

\* bytes * c, exactly, from the last byte up; the first byte of the result
\* is the carry out of the first byte
RECURSIVE multiply_bytes(_, _, _, _)
multiply_bytes(bytes, pos, c, carry) ==
    IF pos = 0 THEN <<carry>>
    ELSE LET t == bytes[pos] * c + carry
         IN  Append(multiply_bytes(bytes, pos - 1, c, t \div 256), t % 256)

\* x * c for a double x and an integer 0 < c < 256
float_mul(x, c) ==
    LET padded == <<0, 0, 0>> \o x.m
        bytes == [t \in 1..7 |-> bits_to_int(SubSeq(padded, 8 * t - 7, 8 * t))]
        product == strip_zeros(bytes_to_bits(multiply_bytes(bytes, 7, c, 0)))
        e == x.e + (Len(product) - Len(x.m))
    IN  IF Len(product) = SignificandBits
        THEN [m |-> product, e |-> e]
        ELSE round_nearest_even(product, e, FALSE)

\* int(x) for a double 0 < x < 2^31: truncation toward zero
float_to_int(x) ==
    IF x.e < 0 THEN 0 ELSE bits_to_int(SubSeq(x.m, 1, x.e + 1))

\* round(...) where the code writes int(...)
percentage_rounded(done, total) == (200 * done + total) \div (2 * total)

\* i where the code writes i + 1
percentage_of_index(done, total) ==
    IF done = 1 THEN 0
    ELSE float_to_int(float_mul(float_div(done - 1, total), 100))

percentage(done, total) == float_to_int(float_mul(float_div(done, total), 100))

(***************************************************************************)
(* The pure functions, applied to inputs drawn in the initial state.       *)
(***************************************************************************)
\* Two voice messages, handled at the same time.
Requests == {"r1", "r2"}
NoTask == "no_task"

\* the stt handlers before any update arrives
SttIdle ==
    /\ pc = [r \in Requests |-> "idle"]
    /\ running = NoTask
    /\ num_chunks = [r \in Requests |-> 0]
    /\ i = [r \in Requests |-> 0]
    /\ transcription = [r \in Requests |-> <<>>]
    /\ decoded_message = [r \in Requests |-> <<>>]
    /\ current_percentage = [r \in Requests |-> 0]
    /\ emitted = [r \in Requests |-> <<>>]
    /\ shown = [r \in Requests |-> <<>>]
    /\ message = [r \in Requests |-> FALSE]
    /\ msgs_list = [r \in Requests |-> <<>>]
    /\ delivered = [r \in Requests |-> <<>>]
    /\ errors = [r \in Requests |-> 0]
    /\ raisedAt = [r \in Requests |-> "none"]

\* Single-character words, each followed by one space, two characters more
\* than twice the limit: one word more than two full pieces hold.
ScenarioInput == [t \in 1..(2 * MaxMessageLength + 2) |-> IF t % 2 = 1 THEN "a" ELSE " "]

SplitInputs == StringsUpTo(MaxStrLen) \cup {ScenarioInput}

InitSplit ==
    /\ arg \in SplitInputs
    /\ ret = <<>>
    /\ called = "none"
    /\ SttIdle

CallSplitString ==
    /\ called = "none"
    /\ called' = "split_string"
    /\ ret' = split_string(arg)
    /\ UNCHANGED <<arg, sttVars>>

CallUtilsSplitString ==
    /\ called = "none"
    /\ called' = "utils_split_string"
    /\ ret' = utils_split_string(arg)
    /\ UNCHANGED <<arg, sttVars>>

NextSplit == CallSplitString \/ CallUtilsSplitString

SpecSplit == InitSplit /\ [][NextSplit]_vars

Samples == {-1, 0, 1}

SilenceInputs ==
    {<<audio, sr, threshold>> :
        audio \in UNION {[1..len -> Samples] : len \in 0..MaxSamples},
        sr \in 1..MaxSr,
        threshold \in 1..MaxThreshold}

InitSilence ==
    /\ arg \in SilenceInputs
    /\ ret = <<>>
    /\ called = "none"
    /\ SttIdle

CallDetectSilence ==
    /\ called = "none"
    /\ called' = "detect_silence"
    /\ ret' = detect_silence(arg[1], arg[2], arg[3])
    /\ UNCHANGED <<arg, sttVars>>

NextSilence == CallDetectSilence

SpecSilence == InitSilence /\ [][NextSilence]_vars

\* <<i + 1, num_chunks>> for every pass of the loop over num_chunks chunks
PctInputs == {<<done, total>> \in (1..MaxPctChunks) \X (1..MaxPctChunks) : done <= total}

InitPct ==
    /\ arg \in PctInputs
    /\ ret = <<>>
    /\ called = "none"
    /\ SttIdle

CallPercentage ==
    /\ called = "none"
    /\ called' = "percentage"
    /\ ret' = percentage(arg[1], arg[2])
    /\ UNCHANGED <<arg, sttVars>>

NextPct == CallPercentage

SpecPct == InitPct /\ [][NextPct]_vars

(***************************************************************************)
(* stt, bob_bot.py:90-153.                                                 *)
(*                                                                         *)
(* Each request is one run of the coroutine.  The event loop has a single  *)
(* thread: a handler that is not suspended at an await holds it (running)  *)
(* until its next await.  The handlers of the two updates are taken to be  *)
(* dispatched concurrently, so that they interleave at their awaits (the   *)
(* Application of line 159 is built with its defaults and may run them one *)
(* after the other: those runs are among the ones here).  Every awaited    *)
(* Telegram call and every library call may return or raise.               *)
(*                                                                         *)
(* pc is the await the coroutine is suspended at (get_file,                *)
(* download_to_drive, reply_progress, edit_message_text, delete_message,   *)
(* reply_text, reply_error), or the line it is about to execute while it   *)
(* holds the thread (processor, generate, batch_decode), or idle,          *)
(* returned, raised (the exception left stt).                              *)
(***************************************************************************)
\* what whisper may transcribe a chunk to
Transcriptions == {<<" ", "a">>, <<" ", "a", "b", "b">>}

\* the numbers of chunks whisper.get_chunks may return (chunks, num_chunks
\* with num_chunks = len(chunks))
get_chunks == 1..MaxChunks

\* str concatenation of the texts of a sequence
RECURSIVE concat(_)
concat(texts) == IF texts = <<>> THEN <<>> ELSE Head(texts) \o concat(Tail(texts))

Init ==
    /\ arg = <<>>
    /\ ret = <<>>
    /\ called = "none"
    /\ SttIdle

\* the except clause, lines 151-153: log, then await reply_text(str(e))
Except(r, where) ==
    /\ pc' = [pc EXCEPT ![r] = "reply_error"]
    /\ raisedAt' = [raisedAt EXCEPT ![r] = where]
    /\ running' = NoTask

\* an exception outside the try block, lines 93-99: it leaves the handler
Propagate(r, where) ==
    /\ pc' = [pc EXCEPT ![r] = "raised"]
    /\ raisedAt' = [raisedAt EXCEPT ![r] = where]
    /\ running' = NoTask

\* lines 91-94: the handler starts and awaits get_file
Stt(r) ==
    /\ pc[r] = "idle"
    /\ running = NoTask
    /\ pc' = [pc EXCEPT ![r] = "get_file"]
    /\ UNCHANGED <<harnessVars, running, num_chunks, i, transcription,
                   decoded_message, current_percentage, emitted, shown, message,
                   msgs_list, delivered, errors, raisedAt>>

\* lines 96-98: get_file returned; await download_to_drive
GetFileReturns(r) ==
    /\ pc[r] = "get_file"
    /\ running = NoTask
    /\ pc' = [pc EXCEPT ![r] = "download_to_drive"]
    /\ UNCHANGED <<harnessVars, running, num_chunks, i, transcription,
                   decoded_message, current_percentage, emitted, shown, message,
                   msgs_list, delivered, errors, raisedAt>>

\* line 94 raises
GetFileRaises(r) ==
    /\ pc[r] = "get_file"
    /\ running = NoTask
    /\ Propagate(r, "get_file")
    /\ UNCHANGED <<harnessVars, num_chunks, i, transcription,
                   decoded_message, current_percentage, emitted, shown, message,
                   msgs_list, delivered, errors>>

\* line 98 raises
DownloadRaises(r) ==
    /\ pc[r] = "download_to_drive"
    /\ running = NoTask
    /\ Propagate(r, "download_to_drive")
    /\ UNCHANGED <<harnessVars, num_chunks, i, transcription,
                   decoded_message, current_percentage, emitted, shown, message,
                   msgs_list, delivered, errors>>

\* line 98 returned, librosa.load (line 99) raises
LoadRaises(r) ==
    /\ pc[r] = "download_to_drive"
    /\ running = NoTask
    /\ Propagate(r, "load")
    /\ UNCHANGED <<harnessVars, num_chunks, i, transcription,
                   decoded_message, current_percentage, emitted, shown, message,
                   msgs_list, delivered, errors>>

\* lines 99-102: the audio is loaded, get_chunks raises inside the try
GetChunksRaises(r) ==
    /\ pc[r] = "download_to_drive"
    /\ running = NoTask
    /\ Except(r, "get_chunks")
    /\ UNCHANGED <<harnessVars, num_chunks, i, transcription,
                   decoded_message, current_percentage, emitted, shown, message,
                   msgs_list, delivered, errors>>

\* lines 99-110: load, get_chunks, decoded_message = "", current_percentage
\* = 0, await reply_text("Processing data: 0%")
DownloadReturns(r) ==
    /\ pc[r] = "download_to_drive"
    /\ running = NoTask
    /\ \E count \in get_chunks : num_chunks' = [num_chunks EXCEPT ![r] = count]
    /\ decoded_message' = [decoded_message EXCEPT ![r] = <<>>]
    /\ current_percentage' = [current_percentage EXCEPT ![r] = 0]
    /\ emitted' = [emitted EXCEPT ![r] = Append(@, 0)]
    /\ pc' = [pc EXCEPT ![r] = "reply_progress"]
    /\ UNCHANGED <<harnessVars, running, i, transcription, shown, message,
                   msgs_list, delivered, errors, raisedAt>>

\* line 108 returned the progress message; the for loop starts (line 111)
ReplyProgressReturns(r) ==
    /\ pc[r] = "reply_progress"
    /\ running = NoTask
    /\ message' = [message EXCEPT ![r] = TRUE]
    /\ shown' = [shown EXCEPT ![r] = Append(@, current_percentage[r])]
    /\ i' = [i EXCEPT ![r] = 0]
    /\ pc' = [pc EXCEPT ![r] = "processor"]
    /\ running' = r
    /\ UNCHANGED <<harnessVars, num_chunks, transcription, decoded_message,
                   current_percentage, emitted, msgs_list, delivered, errors,
                   raisedAt>>

\* line 108 raises
ReplyProgressRaises(r) ==
    /\ pc[r] = "reply_progress"
    /\ running = NoTask
    /\ Except(r, "reply_progress")
    /\ UNCHANGED <<harnessVars, num_chunks, i, transcription,
                   decoded_message, current_percentage, emitted, shown, message,
                   msgs_list, delivered, errors>>

\* whisper.processor awaited: the handler gives up the thread inside the
\* model invocation
ProcessorAwaited(r) ==
    /\ pc[r] = "processor"
    /\ running = r
    /\ pc' = [pc EXCEPT ![r] = "generate"]
    /\ running' = NoTask
    /\ UNCHANGED <<harnessVars, num_chunks, i, transcription,
                   decoded_message, current_percentage, emitted, shown, message,
                   msgs_list, delivered, errors, raisedAt>>

\* lines 113-115: whisper.processor(chunk), a plain call
Processor(r) ==
    /\ pc[r] = "processor"
    /\ running = r
    /\ pc' = [pc EXCEPT ![r] = "generate"]
    /\ UNCHANGED <<harnessVars, running, num_chunks, i, transcription,
                   decoded_message, current_percentage, emitted, shown, message,
                   msgs_list, delivered, errors, raisedAt>>

\* lines 118-122: whisper.model.generate(...), a plain call
Generate(r) ==
    /\ pc[r] = "generate"
    /\ running = r
    /\ pc' = [pc EXCEPT ![r] = "batch_decode"]
    /\ UNCHANGED <<harnessVars, running, num_chunks, i, transcription,
                   decoded_message, current_percentage, emitted, shown, message,
                   msgs_list, delivered, errors, raisedAt>>

\* decoded_message = transcription[0] where the code writes +=
BatchDecodeOverwrites(r) ==
    /\ pc[r] = "batch_decode"
    /\ running = r
    /\ \E text \in Transcriptions :
          /\ transcription' = [transcription EXCEPT ![r] = (i[r] + 1 :> text) @@ @]
          /\ decoded_message' = [decoded_message EXCEPT ![r] = text]
    /\ current_percentage' =
          [current_percentage EXCEPT ![r] = percentage(i[r] + 1, num_chunks[r])]
    /\ emitted' = [emitted EXCEPT ![r] = Append(@, current_percentage'[r])]
    /\ pc' = [pc EXCEPT ![r] = "edit_message_text"]
    /\ running' = NoTask
    /\ UNCHANGED <<harnessVars, num_chunks, i, shown, message, msgs_list,
                   delivered, errors, raisedAt>>

\* lines 125-138: batch_decode, decoded_message += transcription[0],
\* current_percentage, await edit_message_text
BatchDecode(r) ==
    /\ pc[r] = "batch_decode"
    /\ running = r
    /\ \E text \in Transcriptions :
          /\ transcription' = [transcription EXCEPT ![r] = (i[r] + 1 :> text) @@ @]
          /\ decoded_message' = [decoded_message EXCEPT ![r] = @ \o text]
    /\ current_percentage' =
          [current_percentage EXCEPT ![r] = percentage(i[r] + 1, num_chunks[r])]
    /\ emitted' = [emitted EXCEPT ![r] = Append(@, current_percentage'[r])]
    /\ pc' = [pc EXCEPT ![r] = "edit_message_text"]
    /\ running' = NoTask
    /\ UNCHANGED <<harnessVars, num_chunks, i, shown, message, msgs_list,
                   delivered, errors, raisedAt>>

\* one of the calls of lines 113-127 raises
WhisperRaises(r) ==
    /\ pc[r] \in {"processor", "generate", "batch_decode"}
    /\ running = r
    /\ Except(r, "whisper")
    /\ UNCHANGED <<harnessVars, num_chunks, i, transcription,
                   decoded_message, current_percentage, emitted, shown, message,
                   msgs_list, delivered, errors>>

\* line 134 returned: the next pass of the loop, or after the last chunk
\* await delete_message (line 141)
EditReturns(r) ==
    /\ pc[r] = "edit_message_text"
    /\ running = NoTask
    /\ IF i[r] + 1 < num_chunks[r]
       THEN /\ i' = [i EXCEPT ![r] = @ + 1]
            /\ pc' = [pc EXCEPT ![r] = "processor"]
            /\ running' = r
       ELSE /\ pc' = [pc EXCEPT ![r] = "delete_message"]
            /\ UNCHANGED <<i, running>>
    /\ shown' = [shown EXCEPT ![r] = Append(@, current_percentage[r])]
    /\ UNCHANGED <<harnessVars, num_chunks, transcription, decoded_message,
                   current_percentage, emitted, message, msgs_list, delivered,
                   errors, raisedAt>>

\* line 134 raises
EditRaises(r) ==
    /\ pc[r] = "edit_message_text"
    /\ running = NoTask
    /\ Except(r, "edit_message_text")
    /\ UNCHANGED <<harnessVars, num_chunks, i, transcription,
                   decoded_message, current_percentage, emitted, shown, message,
                   msgs_list, delivered, errors>>

\* line 141 returned; lines 146-149: split_string, await reply_text of the
\* first piece
DeleteReturns(r) ==
    /\ pc[r] = "delete_message"
    /\ running = NoTask
    /\ message' = [message EXCEPT ![r] = FALSE]
    /\ msgs_list' = [msgs_list EXCEPT ![r] = split_string(decoded_message[r])]
    /\ pc' = [pc EXCEPT ![r] = "reply_text"]
    /\ UNCHANGED <<harnessVars, running, num_chunks, i, transcription,
                   decoded_message, current_percentage, emitted, shown, delivered,
                   errors, raisedAt>>

\* line 141 raises
DeleteRaises(r) ==
    /\ pc[r] = "delete_message"
    /\ running = NoTask
    /\ Except(r, "delete_message")
    /\ UNCHANGED <<harnessVars, num_chunks, i, transcription,
                   decoded_message, current_percentage, emitted, shown, message,
                   msgs_list, delivered, errors>>

\* line 149 returned: the piece is delivered; await reply_text of the next
\* piece, or return
ReplyTextReturns(r) ==
    /\ pc[r] = "reply_text"
    /\ running = NoTask
    /\ delivered' = [delivered EXCEPT ![r] = Append(@, msgs_list[r][Len(@) + 1])]
    /\ pc' = [pc EXCEPT ![r] =
                IF Len(delivered[r]) + 1 < Len(msgs_list[r])
                THEN "reply_text" ELSE "returned"]
    /\ UNCHANGED <<harnessVars, running, num_chunks, i, transcription,
                   decoded_message, current_percentage, emitted, shown, message,
                   msgs_list, errors, raisedAt>>

\* line 149 raises
ReplyTextRaises(r) ==
    /\ pc[r] = "reply_text"
    /\ running = NoTask
    /\ Except(r, "reply_text")
    /\ UNCHANGED <<harnessVars, num_chunks, i, transcription,
                   decoded_message, current_percentage, emitted, shown, message,
                   msgs_list, delivered, errors>>

\* line 153 returned: the user has the error message; stt returns
ReplyErrorReturns(r) ==
    /\ pc[r] = "reply_error"
    /\ running = NoTask
    /\ errors' = [errors EXCEPT ![r] = @ + 1]
    /\ pc' = [pc EXCEPT ![r] = "returned"]
    /\ UNCHANGED <<harnessVars, running, num_chunks, i, transcription,
                   decoded_message, current_percentage, emitted, shown, message,
                   msgs_list, delivered, raisedAt>>

\* line 153 raises: the exception leaves stt
ReplyErrorRaises(r) ==
    /\ pc[r] = "reply_error"
    /\ running = NoTask
    /\ pc' = [pc EXCEPT ![r] = "raised"]
    /\ UNCHANGED <<harnessVars, running, num_chunks, i, transcription,
                   decoded_message, current_percentage, emitted, shown, message,
                   msgs_list, delivered, errors, raisedAt>>

Next ==
    \E r \in Requests :
        \/ Stt(r)
        \/ GetFileReturns(r)
        \/ GetFileRaises(r)
        \/ DownloadRaises(r)
        \/ LoadRaises(r)
        \/ GetChunksRaises(r)
        \/ DownloadReturns(r)
        \/ ReplyProgressReturns(r)
        \/ ReplyProgressRaises(r)
        \/ Processor(r)
        \/ Generate(r)
        \/ BatchDecode(r)
        \/ WhisperRaises(r)
        \/ EditReturns(r)
        \/ EditRaises(r)
        \/ DeleteReturns(r)
        \/ DeleteRaises(r)
        \/ ReplyTextReturns(r)
        \/ ReplyTextRaises(r)
        \/ ReplyErrorReturns(r)
        \/ ReplyErrorRaises(r)

Spec == Init /\ [][Next]_vars

(***************************************************************************)
(* Properties of split_string, under SpecSplit.                            *)
(***************************************************************************)
SplitCalled == called \in {"split_string", "utils_split_string"}

\* the words of all the pieces, in order
PieceWords(pieces) == concat([k \in 1..Len(pieces) |-> str_split(pieces[k])])

\* C1: every string split_string produces (either copy) is strictly shorter
\* than the limit, and the input of single-character words each followed by
\* one space yields exactly 3 pieces.
C1_PiecesUnderLimit ==
    SplitCalled =>
        /\ \A k \in 1..Len(ret) : Len(ret[k]) < MaxMessageLength
        /\ arg = ScenarioInput => Len(ret) = 3

\* C10: the pieces hold the words of the input, whole, each once and in
\* order; joined with single spaces they give back the text up to its
\* whitespace runs, with no leading space the input does not have and no
\* empty piece.
C10_WholeWordsAndJoin ==
    SplitCalled =>
        /\ PieceWords(ret) = str_split(arg)
        /\ str_split(str_join(<<" ">>, ret)) = str_split(arg)
        /\ (arg # <<>> /\ arg[1] \notin Whitespace) =>
               str_join(<<" ">>, ret)[1] \notin Whitespace
        /\ str_split(arg) # <<>> => \A k \in 1..Len(ret) : ret[k] # <<>>

(***************************************************************************)
(* Properties of detect_silence, under SpecSilence.                        *)
(***************************************************************************)
AllZero(audio) == \A k \in 1..Len(audio) : audio[k] = 0

SilentBufferCalled ==
    /\ called = "detect_silence"
    /\ Len(arg[1]) >= 1
    /\ AllZero(arg[1])

\* C9 as claimed: on an all-zero buffer of at least one sample the count is
\* floor(d / window_size), d the duration and window_size one window of sr
\* samples, that is floor(len(audio) / sr).
C9_CountIsFloor ==
    SilentBufferCalled => ret[1] = ret[2][1] \div ret[2][2]

\* C9 as amended: on an all-zero buffer of at least one sample the count is
\* the number of windows, the last, shorter one included: the least count
\* with count * sr >= len(audio), that is ceil(d / window_size).
C9_CountIsCeiling ==
    SilentBufferCalled =>
        /\ ret[1] * arg[2] >= Len(arg[1])
        /\ (ret[1] - 1) * arg[2] < Len(arg[1])

\* an all-zero buffer of 5 samples at sr = 2: two full windows and a shorter
\* one, all three counted
C9_Witness ==
    /\ SilentBufferCalled
    /\ Len(arg[1]) = 5
    /\ arg[2] = 2
    /\ ret[1] = 3

(***************************************************************************)
(* Properties of the progress percentage, under SpecPct.                   *)
(***************************************************************************)
\* C7 as claimed: the percentage after chunk i of N is round(i / N * 100),
\* an integer nearest to 100 * i / N, in 0..100.
C7_PercentageIsRounded ==
    called = "percentage" =>
        /\ ret \in 0..100
        /\ 2 * (100 * arg[1] - ret * arg[2]) <= arg[2]
        /\ 2 * (ret * arg[2] - 100 * arg[1]) <= arg[2]

\* C7 as amended: the percentage after chunk i of N is int(i / N * 100), the
\* double product truncated: an integer p in 0..100 with
\* p <= 100 * i / N <= p + 1 (so floor(100 * i / N) unless 100 * i / N is an
\* integer the double product falls short of), and 100 for i = N.
C7_PercentageIsTruncated ==
    called = "percentage" =>
        /\ ret \in 0..100
        /\ ret * arg[2] <= 100 * arg[1]
        /\ 100 * arg[1] <= (ret + 1) * arg[2]
        /\ arg[1] = arg[2] => ret = 100

\* 29 of 50 chunks: 29 / 50 * 100 is 57.99999999999999 in doubles, shown as 57
C7_Witness ==
    /\ called = "percentage"
    /\ arg = <<29, 50>>
    /\ ret = 57

(***************************************************************************)
(* Properties of stt, under Spec.                                          *)
(***************************************************************************)
Ended(r) == pc[r] \in {"returned", "raised"}

\* the number of chunks whose text is in the transcript
Transcribed(r) == Cardinality(DOMAIN transcription[r])

InWhisper(r) == pc[r] \in {"generate", "batch_decode"}

\* C2: when get_file, download_to_drive or the audio load raises, the
\* request ends with exactly one error message delivered and no progress
\* message sent.
C2_DownloadFailureReported ==
    \A r \in Requests :
        (Ended(r) /\ raisedAt[r] \in {"get_file", "download_to_drive", "load"}) =>
            /\ errors[r] = 1
            /\ emitted[r] = <<>>

\* C3: no request has both a delivered transcript piece and a delivered
\* error message.
C3_AllOrNothing ==
    \A r \in Requests : ~(delivered[r] # <<>> /\ errors[r] > 0)

\* C4: a progress update that raises does not abort the request: no error
\* message is sent, and the request ends only with the whole transcript
\* delivered.
C4_ProgressFailureNotFatal ==
    \A r \in Requests :
        raisedAt[r] = "edit_message_text" =>
            /\ pc[r] \notin {"reply_error", "raised"}
            /\ errors[r] = 0
            /\ Ended(r) => delivered[r] = split_string(decoded_message[r])

\* C5: no two requests are inside a whisper invocation (processor called,
\* batch_decode not yet returned) at the same time.
C5_WhisperSerialized ==
    \A r, q \in Requests : (r # q) => ~(InWhisper(r) /\ InWhisper(q))

\* one request inside the invocation while the other, with one chunk done,
\* waits at its progress update for the thread
C5_Witness ==
    \E r, q \in Requests :
        /\ r # q
        /\ InWhisper(r)
        /\ pc[q] = "edit_message_text"
        /\ Transcribed(q) < num_chunks[q]

\* C6: the percentages a request emits never decrease, and once all its
\* chunks are transcribed the last one emitted is 100.
C6_ProgressMonotone ==
    \A r \in Requests :
        /\ \A k \in 1..(Len(emitted[r]) - 1) : emitted[r][k] <= emitted[r][k + 1]
        /\ (num_chunks[r] >= 1 /\ Transcribed(r) = num_chunks[r]) =>
               emitted[r][Len(emitted[r])] = 100

\* a request of three chunks that emitted 0, 33, 66, 100
C6_Witness ==
    \E r \in Requests : num_chunks[r] = 3 /\ emitted[r] = <<0, 33, 66, 100>>

\* C8: the chunks whose text is in the transcript are 1..k, the transcript
\* is their texts in chunk order, a chunk is given to whisper only when the
\* texts of all chunks before it are in the transcript and their progress
\* updates have returned, and pieces are delivered only when k = N.
C8_ChunksInOrder ==
    \A r \in Requests :
        /\ DOMAIN transcription[r] = 1..Transcribed(r)
        /\ Transcribed(r) <= num_chunks[r]
        /\ decoded_message[r] =
               concat([k \in 1..Transcribed(r) |-> transcription[r][k]])
        /\ pc[r] \in {"processor", "generate", "batch_decode"} =>
               /\ Transcribed(r) = i[r]
               /\ Len(shown[r]) = i[r] + 1
        /\ delivered[r] # <<>> => Transcribed(r) = num_chunks[r]

\* both requests in the middle of their transcriptions: one at its second
\* chunk, the other suspended after its first; and different texts so far
C8_Witness ==
    \E r, q \in Requests :
        /\ r # q
        /\ pc[r] = "batch_decode"
        /\ i[r] = 1
        /\ pc[q] = "edit_message_text"
        /\ num_chunks[q] = 2
        /\ Transcribed(q) = 1
        /\ decoded_message[r] # decoded_message[q]

====
